---- MODULE Spec2Model ----
(***************************************************************************)
(* Spendly backend: the training orchestrator (training.py), the           *)
(* behaviour profiler cache (profiling.py), the request handlers and the   *)
(* bootstrap thread that call them (app.py), the risk scorer (scoring.py,  *)
(* utils.py) and the feature extractor (features.py).                      *)
(*                                                                         *)
(* Spec          request threads and the bootstrap thread around           *)
(*               ensure_trained / fit_profiler / ensure_profiler_fitted    *)
(* SpecBand      get_risk_band over scores with one decimal place          *)
(* SpecScore     compute_score over feature vectors and calibrations       *)
(* SpecFeatures  compute_features over transaction tables                  *)
(***************************************************************************)
EXTENDS Integers, Sequences, FiniteSets, TLC

VARIABLES
    \* ---- shared process state (Spec) ----
    datasets,       \* data_loader._datasets: dataset id -> number of distinct card ids, or NotLoaded
    artifacts,      \* the per-dataset artifacts record behind get_artifacts / set_artifacts
    cache,          \* profiling._cache: dataset id -> fitted (kmeans, scaler), or NoModel
    default_id,     \* the default dataset id behind get/set_default_dataset_id
    status,         \* app._bootstrap_state["status"]
    lock,           \* holder of app._bootstrap_lock, or NoThread
    demo_path,      \* config["DEMO_DATASET_PATH"] is set
    finishing,      \* bootstrap threads past their last status write, not yet ended
    clock,          \* time.time(): advanced by every fit that starts
    \* ---- per thread ----
    pc,             \* position of the thread in its handler
    op,             \* what the thread serves: "train" | "analyze" | "default" | "boot" | "none"
    ds,             \* the dataset_id the thread works on
    start,          \* local `start` of ensure_trained (0 when no fit began)
    ret,            \* value returned by the thread's ensure_trained call
    resp,           \* what the thread's handler has computed for its response
    \* ---- history variable (an observer, never read by the program) ----
    installs,       \* number of set_artifacts executions per dataset id
    \* ---- get_risk_band applied to one score (SpecBand) ----
    bandIn,         \* the score argument, in tenths of a point
    bandOut,        \* the label returned, "none" before the call
    \* ---- compute_score applied to feature vectors (SpecScore) ----
    scFeat,         \* the features argument
    scCal,          \* the calibration argument (the empty function: None)
    scSpikeB,       \* spike_intensity of a second vector, equal to scFeat elsewhere
    scOut,          \* (score, breakdown, risk_band) returned for scFeat
    scOutB,         \* the same for the second vector
    \* ---- compute_features applied to one entity's rows (SpecFeatures) ----
    dfA,            \* the DataFrame argument: a sequence of rows
    dfB,            \* the same rows in another order
    featA,          \* the FeatureVector returned for dfA
    featB,          \* the FeatureVector returned for dfB
    \* ---- the calibration ensure_trained fits on a sample (SpecCalib) ----
    calSample,      \* features_list: the FeatureVectors of the sampled entities
    calProbe,       \* a FeatureVector scored afterwards
    calFitted,      \* `calibration` of ensure_trained, line 74
    calScores,      \* compute_score of calProbe with calFitted, and with None
    \* ---- one call of ensure_trained: sample, loop, insights (SpecInsights) ----
    giDf,           \* the card_id column of the DataFrame argument
    giPc,           \* position of the call
    giCardIds,      \* `card_ids` of ensure_trained, line 68
    giCalibration,  \* `calibration`, line 74
    giCache,        \* profiling._cache as this call sees it
    giScores,       \* `scores`, in tenths
    giBandCounts,   \* `band_counts`
    giClusterCounts,\* `cluster_counts`
    giArtifacts     \* the record passed to set_artifacts, line 108

trainVars == <<datasets, artifacts, cache, default_id, status, lock, demo_path, finishing, clock,
               pc, op, ds, start, ret, resp, installs>>

\* --------------------------------------------------------------------------
\* Bounds of the model
\* --------------------------------------------------------------------------
NThreads == 2       \* concurrent request threads
MaxFits == 2        \* fits that may start in one behaviour (caps the clock)
MaxTx == 3          \* rows of one entity's DataFrame
MantissaBits == 3   \* significand width of the model's floating point (float64: 53)
TicksPerSecond == 2 \* resolution of purchase_date (datetime64[ns]: 10^9 per second)
MaxSample == 2      \* FeatureVectors in the sample a calibration is fitted on
MaxFinishing == 1   \* bootstrap threads that may be in their last statements at once
UsersForFit == 5    \* the sampling cap where the sample is enumerated (MAX_USERS_FOR_FIT: 50000)

\* --------------------------------------------------------------------------
\* Program constants
\* --------------------------------------------------------------------------
N_CLUSTERS == 5
MAX_USERS_FOR_FIT == 50000

Requests == 1..NThreads
BootThread == 0
Threads == Requests \cup {BootThread}
NoThread == -1
DatasetIds == {"up", "demo"}
NoDataset == "None"
NotLoaded == -1
\* distinct card ids a loaded dataset may hold: below and at the cluster count,
\* and above the sampling cap
EntityCounts == {4, 5, 50001}
\* distinct card ids of the demo dataset file
DemoEntityCounts == {4, 50001}

NoModel == 0
NoArtifacts == [trained |-> FALSE, trained_users |-> 0, calibration |-> "None", stamp |-> 0]

Min(a, b) == IF a <= b THEN a ELSE b
Max(a, b) == IF a >= b THEN a ELSE b

\* --------------------------------------------------------------------------
\* Exact arithmetic for the floats of the program: a number is a fraction
\* [n, d] with d > 0, kept in lowest terms
\* --------------------------------------------------------------------------
Abs(x) == IF x < 0 THEN -x ELSE x

RECURSIVE Gcd(_, _)
Gcd(a, b) == IF b = 0 THEN a ELSE Gcd(b, a % b)

Q(n, d) ==
    LET g == Gcd(Abs(n), Abs(d))
        sgn == IF d < 0 THEN -1 ELSE 1
    IN [n |-> sgn * (n \div g), d |-> sgn * (d \div g)]

QInt(k) == [n |-> k, d |-> 1]
QAdd(a, b) == Q(a.n * b.d + b.n * a.d, a.d * b.d)
QSub(a, b) == Q(a.n * b.d - b.n * a.d, a.d * b.d)
QMul(a, b) == Q(a.n * b.n, a.d * b.d)
QDiv(a, b) == Q(a.n * b.d, a.d * b.n)
QLe(a, b) == a.n * b.d <= b.n * a.d
QLt(a, b) == a.n * b.d < b.n * a.d
QMin(a, b) == IF QLe(a, b) THEN a ELSE b
QMax(a, b) == IF QLe(b, a) THEN a ELSE b

\* --------------------------------------------------------------------------
\* utils.py: risk bands
\* --------------------------------------------------------------------------
\* (min_score_inclusive, max_score_inclusive, label)
RISK_BANDS == <<
    [lo |-> 0, hi |-> 25, label |-> "Low"],
    [lo |-> 26, hi |-> 50, label |-> "Medium"],
    [lo |-> 51, hi |-> 75, label |-> "High"],
    [lo |-> 76, hi |-> 100, label |-> "Critical"] >>

\* utils.get_risk_band: clamp, first band whose closed range holds the score,
\* "Low" when no band does
get_risk_band(score) ==
    LET s == QMax(QInt(0), QMin(QInt(100), score))
        hit == {i \in 1..Len(RISK_BANDS) :
                    QLe(QInt(RISK_BANDS[i].lo), s) /\ QLe(s, QInt(RISK_BANDS[i].hi))}
    IN IF hit = {} THEN "Low"
       ELSE RISK_BANDS[CHOOSE i \in hit : \A j \in hit : i <= j].label

\* utils.COMPONENT_WEIGHTS
COMPONENT_WEIGHTS ==
    [spike |-> Q(25, 100), burst |-> Q(25, 100), eom |-> Q(20, 100),
     timing |-> Q(15, 100), category |-> Q(15, 100)]

\* --------------------------------------------------------------------------
\* scoring.py
\* --------------------------------------------------------------------------
\* a slip in _normalize: the degenerate-range guard tests x instead of low
normalize_guard_on_x(x, low, high) ==
    IF QLe(high, x) THEN QInt(0)
    ELSE QMax(QInt(0), QMin(QInt(1), QDiv(QSub(x, low), QSub(high, low))))

\* a slip in _normalize: the scaled value is returned without the clamp
normalize_unclamped(x, low, high) ==
    IF QLe(high, low) THEN QInt(0)
    ELSE QDiv(QSub(x, low), QSub(high, low))

\* scoring._normalize: clamp and scale to [0, 1]
normalize(x, low, high) ==
    IF QLe(high, low) THEN QInt(0)
    ELSE QMax(QInt(0), QMin(QInt(1), QDiv(QSub(x, low), QSub(high, low))))

\* max(x, 1e-9), line 47: every rational of the model has a denominator below
\* 10^9, so x >= 1e-9 exactly when its numerator is positive
MaxEps9(x) == IF x.n >= 1 THEN x ELSE Q(1, 1000000000)

\* dict.get(key, default) on a calibration; None and {} are the empty function
CalGet(cal, key, default) == IF key \in DOMAIN cal THEN cal[key] ELSE default

\* round(score, 1) of a score >= 0, in tenths: the nearest tenth, a tie going to
\* the even one
Round1(x) ==
    LET t == QMul(x, QInt(10))
        f == t.n \div t.d
        r == 2 * (t.n - f * t.d)
    IN CASE r < t.d -> f
         [] r > t.d -> f + 1
         [] OTHER -> IF f % 2 = 0 THEN f ELSE f + 1

\* scoring.compute_score, lines 34-53: the five components
score_breakdown(features, calibration) ==
    LET spike_hi == CalGet(calibration, "spike_p95", QInt(5))
        burst_max2h_hi == CalGet(calibration, "max_tx_in_2h_p95", QInt(20))
        eom_hi == CalGet(calibration, "eom_ratio_p95", QInt(3))
        entropy_hi == CalGet(calibration, "hour_entropy_p95", QInt(4))
        diversity_hi == CalGet(calibration, "category_diversity_p95", QInt(10))
        spike_n == normalize(features.spike_intensity, QInt(0), spike_hi)
        burst_n == QAdd(QMul(Q(6, 10), QMin(QInt(1), features.burst_ratio_30min)),
                        QMul(Q(4, 10), normalize(QMin(features.max_tx_in_2h, burst_max2h_hi),
                                                 QInt(0), burst_max2h_hi)))
        eom_n == normalize(QMax(features.eom_spend_ratio, features.eom_count_ratio),
                           QInt(0), eom_hi)
        ent == QMin(entropy_hi, features.hour_entropy)
        timing_n == QAdd(QAdd(QMul(features.late_night_ratio, Q(4, 10)),
                              QMul(features.weekend_ratio, Q(3, 10))),
                         QMul(QSub(QInt(1), QDiv(ent, MaxEps9(entropy_hi))),
                              Q(3, 10)))
        div_cap == QMax(QInt(3), diversity_hi)
        low_div_score == normalize(QSub(div_cap, QMin(features.category_diversity, div_cap)),
                                   QInt(0), div_cap)
        category_n == QAdd(QMul(features.category_concentration, Q(6, 10)),
                           QMul(low_div_score, Q(4, 10)))
    IN [spike |-> spike_n, burst |-> burst_n, eom |-> eom_n, timing |-> timing_n,
        category |-> category_n]

\* scoring.compute_score, lines 55-72: the weighted sum, the clamp, the band of
\* the unrounded score, the score rounded to one decimal (kept in tenths)
compute_score(features, calibration) ==
    LET weights == COMPONENT_WEIGHTS
        breakdown == score_breakdown(features, calibration)
        sum == QAdd(QAdd(QAdd(QAdd(QMul(weights.spike, breakdown.spike),
                                   QMul(weights.burst, breakdown.burst)),
                              QMul(weights.eom, breakdown.eom)),
                         QMul(weights.timing, breakdown.timing)),
                    QMul(weights.category, breakdown.category))
        score == QMax(QInt(0), QMin(QInt(100), QMul(sum, QInt(100))))
    IN [score |-> Round1(score), breakdown |-> breakdown, risk_band |-> get_risk_band(score)]

\* --------------------------------------------------------------------------
\* training.py: the score calibration
\* --------------------------------------------------------------------------
\* ascending order of a sequence of rationals (np.percentile sorts its input)
RECURSIVE InsertQ(_, _)
InsertQ(s, x) ==
    IF s = <<>> \/ QLe(s[Len(s)], x) THEN Append(s, x)
    ELSE Append(InsertQ(SubSeq(s, 1, Len(s) - 1), x), s[Len(s)])

RECURSIVE SortQ(_)
SortQ(s) == IF s = <<>> THEN <<>> ELSE InsertQ(SortQ(SubSeq(s, 1, Len(s) - 1)), s[Len(s)])

\* np.percentile(arr, q), linear interpolation: position (n-1)*q/100 of the
\* sorted values
np_percentile(values, q) ==
    LET a == SortQ(values)
        n == Len(a)
        lo == ((n - 1) * q) \div 100
        frac == Q((n - 1) * q - lo * 100, 100)
    IN IF lo + 1 >= n THEN a[n]
       ELSE QAdd(a[lo + 1], QMul(frac, QSub(a[lo + 2], a[lo + 1])))

\* a slip in _percentile: an empty sample gives 0 instead of the default
percentile_zero_default(values, q, default) ==
    IF Len(values) = 0 THEN QInt(0) ELSE np_percentile(values, q)

\* training._percentile (every value of the model is finite)
percentile(values, q, default) ==
    IF Len(values) = 0 THEN default ELSE np_percentile(values, q)

\* training.fit_score_calibration
fit_score_calibration(features_list) ==
    LET I == 1..Len(features_list)
        spike == [i \in I |-> features_list[i].spike_intensity]
        burst_max2h == [i \in I |-> features_list[i].max_tx_in_2h]
        eom == [i \in I |-> QMax(features_list[i].eom_spend_ratio,
                                 features_list[i].eom_count_ratio)]
        entropy == [i \in I |-> features_list[i].hour_entropy]
        diversity == [i \in I |-> features_list[i].category_diversity]
    IN [spike_p95 |-> QMax(QInt(1), percentile(spike, 95, QInt(5))),
        max_tx_in_2h_p95 |-> QMax(QInt(3), percentile(burst_max2h, 95, QInt(20))),
        eom_ratio_p95 |-> QMax(Q(1, 2), percentile(eom, 95, QInt(3))),
        hour_entropy_p95 |-> QMax(QInt(1), percentile(entropy, 95, QInt(4))),
        category_diversity_p95 |-> QMax(QInt(3), percentile(diversity, 95, QInt(10)))]

\* --------------------------------------------------------------------------
\* features.py
\* --------------------------------------------------------------------------
\* Floating point: a sum of purchase amounts is rounded after every addition to
\* MantissaBits significant bits, ties to even, as IEEE 754 does with 53 bits.
RECURSIVE Pow2(_)
Pow2(k) == IF k = 0 THEN 1 ELSE 2 * Pow2(k - 1)

RECURSIVE BitLen(_)
BitLen(x) == IF x = 0 THEN 0 ELSE 1 + BitLen(x \div 2)

FRound(x) ==
    IF x < Pow2(MantissaBits) THEN x
    ELSE LET u == Pow2(BitLen(x) - MantissaBits)
             q == x \div u
             r == x % u
         IN CASE 2 * r < u -> q * u
              [] 2 * r > u -> (q + 1) * u
              [] OTHER -> IF q % 2 = 0 THEN q * u ELSE (q + 1) * u

FAdd(a, b) == FRound(a + b)

\* Series.sum() of floats: accumulated left to right in row order
RECURSIVE FSum(_)
FSum(s) == IF s = <<>> THEN 0 ELSE FAdd(FSum(SubSeq(s, 1, Len(s) - 1)), s[Len(s)])

\* sum of an integer-valued f over a finite set
RECURSIVE SumOver(_, _)
SumOver(S, f) ==
    IF S = {} THEN 0
    ELSE LET x == CHOOSE y \in S : TRUE IN f[x] + SumOver(S \ {x}, f)

\* a purchase_amount that does not parse (NaN after to_numeric(errors="coerce"))
NaN == -1000000

\* pd.to_numeric(...).fillna(0).abs(), line 30
to_amount(a) == IF a = NaN THEN 0 ELSE Abs(a)

\* The calendar: purchase_date counts ticks from Monday 2018-01-01 00:00:00,
\* and every date of the model lies in that January.
DaysInMonth == 31
Seconds(t) == t \div TicksPerSecond              \* dates.astype(np.int64) // 10**9
Hour(t) == (Seconds(t) \div 3600) % 24           \* dates.dt.hour
Date(t) == Seconds(t) \div 86400                 \* dates.dt.date
DayOfWeek(t) == Date(t) % 7                      \* dates.dt.dayofweek, Monday = 0
\* dates >= (dates + MonthEnd(0)) - 4 days: the 27th to the 31st
last_5_days_of_month(t) == Date(t) >= DaysInMonth - 5

\* df.sort_values("purchase_date"): numpy's quicksort is an insertion sort
\* below 17 elements, so rows of equal date keep their input order
RECURSIVE InsertByDate(_, _)
InsertByDate(s, r) ==
    IF s = <<>> \/ s[Len(s)].purchase_date <= r.purchase_date
    THEN Append(s, r)
    ELSE Append(InsertByDate(SubSeq(s, 1, Len(s) - 1), r), s[Len(s)])

RECURSIVE sort_values(_)
sort_values(df) ==
    IF df = <<>> THEN <<>>
    ELSE InsertByDate(sort_values(SubSeq(df, 1, Len(df) - 1)), df[Len(df)])

\* x / (y + 1e-10) for integer-valued x, y >= 0, held as the pair it is
\* computed from (0 over anything is 0.0); its value is at most 1 exactly
\* when x <= y
EpsRatio(x, y) == IF x = 0 THEN [num |-> 0, den |-> 0] ELSE [num |-> x, den |-> y]

\* features._hour_entropy: 0.0 below two rows, else the entropy of the
\* hour-of-day distribution, held as that distribution: for every count c the
\* number of hours that occur c times
hour_entropy(hours) ==
    IF Len(hours) < 2 THEN [n |-> 0, hist |-> <<>>]
    ELSE LET hs == {hours[i] : i \in 1..Len(hours)}
             cnt(h) == Cardinality({i \in 1..Len(hours) : hours[i] = h})
         IN [n |-> Len(hours),
             hist |-> [c \in 1..Len(hours) |-> Cardinality({h \in hs : cnt(h) = c})]]

\* lines 50-64, for one daily series x over the set of days: the largest
\* squared z-score, with the sample standard deviation of pandas' .std().
\* With dev(d) = n*x[d] - sum(x): z(d)^2 = dev(d)^2 * (n-1) / sum(dev^2);
\* a zero deviation over std + 1e-10 is 0.
spike_squared(x, days) ==
    LET n == Cardinality(days)
        total == SumOver(days, x)
        dev == [d \in days |-> n * x[d] - total]
        sq == [d \in days |-> dev[d] * dev[d]]
        ss == SumOver(days, sq)
        top == CHOOSE m \in {sq[d] : d \in days} : \A d \in days : sq[d] <= m
    IN IF ss = 0 THEN QInt(0) ELSE Q(top * (n - 1), ss)

\* features._empty_features
empty_features ==
    [late_night_ratio |-> QInt(0),
     weekend_ratio |-> QInt(0),
     hour_entropy |-> hour_entropy(<<>>),
     spike_intensity |-> [squared |-> QInt(0)],
     burst_ratio_30min |-> EpsRatio(0, 0),
     max_tx_in_2h |-> 0,
     eom_spend_ratio |-> EpsRatio(0, 0),
     eom_count_ratio |-> EpsRatio(0, 0),
     category_diversity |-> 0,
     category_concentration |-> QInt(0),
     tx_count |-> 0,
     total_spend |-> 0]

\* features.compute_features on rows already sorted (lines 29-113)
features_of_sorted(df) ==
    LET n == Len(df)
        I == 1..n
        dates == [i \in I |-> df[i].purchase_date]
        amounts == [i \in I |-> to_amount(df[i].purchase_amount)]
        hours == [i \in I |-> Hour(dates[i])]
        late_night == Cardinality({i \in I : hours[i] >= 22 \/ hours[i] < 5})
        weekend == Cardinality({i \in I : DayOfWeek(dates[i]) >= 5})
        \* daily aggregates
        days == {Date(dates[i]) : i \in I}
        rows_of(d) == SelectSeq(df, LAMBDA r : Date(r.purchase_date) = d)
        daily_tx_count == [d \in days |-> Len(rows_of(d))]
        daily_spend == [d \in days |->
            FSum([k \in 1..Len(rows_of(d)) |-> to_amount(rows_of(d)[k].purchase_amount)])]
        spike_intensity ==
            IF Cardinality(days) < 2 THEN QInt(0)
            ELSE QMax(spike_squared(daily_tx_count, days), spike_squared(daily_spend, days))
        \* burst: diffs in ticks; 30 minutes = 1800 seconds
        diffs == [i \in 2..n |-> dates[i] - dates[i - 1]]
        n_consecutive_30 == Cardinality({i \in 2..n :
                                diffs[i] <= 1800 * TicksPerSecond /\ diffs[i] > 0})
        n_gaps == Cardinality({i \in 2..n : diffs[i] > 0})
        \* densest 2-hour window, on whole seconds
        ts == [i \in I |-> Seconds(dates[i])]
        window_2h == 2 * 3600
        count(i) == Cardinality({j \in I : ts[j] >= ts[i] /\ ts[j] <= ts[i] + window_2h})
        max_tx_in_2h == CHOOSE m \in {count(i) : i \in I} : \A i \in I : count(i) <= m
        \* end of month
        last_5 == SelectSeq(df, LAMBDA r : last_5_days_of_month(r.purchase_date))
        rest == SelectSeq(df, LAMBDA r : ~last_5_days_of_month(r.purchase_date))
        last_5_spend == FSum([k \in 1..Len(last_5) |-> to_amount(last_5[k].purchase_amount)])
        rest_spend == FSum([k \in 1..Len(rest) |-> to_amount(rest[k].purchase_amount)])
        \* category
        cats == {df[i].category_3 : i \in I}
        cat_count(c) == Cardinality({i \in I : df[i].category_3 = c})
        top_cat == CHOOSE m \in {cat_count(c) : c \in cats} : \A c \in cats : cat_count(c) <= m
    IN [late_night_ratio |-> Q(late_night, n),
        weekend_ratio |-> Q(weekend, n),
        hour_entropy |-> hour_entropy(hours),
        spike_intensity |-> [squared |-> spike_intensity],
        burst_ratio_30min |-> EpsRatio(n_consecutive_30, n_gaps),
        max_tx_in_2h |-> max_tx_in_2h,
        eom_spend_ratio |-> EpsRatio(last_5_spend, rest_spend),
        eom_count_ratio |-> EpsRatio(Len(last_5), Len(rest)),
        category_diversity |-> Cardinality(cats),
        category_concentration |-> Q(top_cat, n),
        tx_count |-> n,
        total_spend |-> FSum(amounts)]

\* features.compute_features
compute_features(df) ==
    IF Len(df) = 0 THEN empty_features ELSE features_of_sorted(sort_values(df))

\* --------------------------------------------------------------------------
\* data_loader: the dataset and artifacts stores
\* --------------------------------------------------------------------------
get_artifacts(store, d) == store[d]
set_artifacts(store, d, a) == [store EXCEPT ![d] = a]
get_dataset(d) == datasets[d]
get_default_dataset_id == default_id

\* training._sample_card_ids: all card ids, or max_users of them without replacement
sample_card_ids(n, max_users) == IF n <= max_users THEN n ELSE max_users

\* a slip in the early-return test: the calibration test inverted
IsTrainedInverted(a) == a.trained /\ a.calibration = "None"

\* training.ensure_trained, lines 63-65: the test of the early return
IsTrained(a) == a.trained /\ a.calibration # "None"

\* a slip in fit_profiler: the test of the sample size is missing
fit_profiler_unguarded(c, d, n, stamp) == [c EXCEPT ![d] = stamp]

\* profiling.fit_profiler: the cache after fitting n feature vectors at time `stamp`
fit_profiler(c, d, n, stamp) ==
    IF n < N_CLUSTERS THEN c ELSE [c EXCEPT ![d] = stamp]

\* utils.PROFILE_LABELS
PROFILE_LABELS ==
    (0 :> "Steady spender") @@ (1 :> "Late-night spender") @@ (2 :> "Impulse burst buyer")
        @@ (3 :> "End-of-month splurger") @@ (4 :> "Category-loyal spender")

NoResponse == [kind |-> "none"]

\* profiling.get_profile(dataset_id, user_features): the profiles it can return.
\* With a cached model kmeans.predict gives one of the N_CLUSTERS ids,
\* without one the default cluster 0 (lines 82-94)
get_profile(c, d) ==
    IF c[d] # NoModel
    THEN {[kind |-> "profile", cluster_id |-> k, profile_label |-> PROFILE_LABELS[k]] :
            k \in 0..(N_CLUSTERS - 1)}
    ELSE {[kind |-> "profile", cluster_id |-> 0, profile_label |-> PROFILE_LABELS[0]]}

\* len(features_list) of a fit by thread t
nfeat(t) == sample_card_ids(get_dataset(ds[t]), MAX_USERS_FOR_FIT)

\* app._ensure_default_dataset_loaded, lines 73 and 76: nothing to start
BootstrapNotNeeded ==
    get_default_dataset_id # NoDataset \/ status \in {"loading", "training", "ready"}

\* --------------------------------------------------------------------------
\* training.ensure_trained, run by thread t on ds[t]
\* --------------------------------------------------------------------------
\* where ensure_trained returns to
AfterTrained(t) ==
    CASE op[t] = "analyze" -> "an_profiler_check"
      [] op[t] = "boot" -> "bt_ready"
      [] OTHER -> "respond"

\* where an exception of ensure_trained is caught
AfterRaise(t) == IF op[t] = "boot" THEN "bt_except" ELSE "failed"

\* lines 63-65
EtCheck(t) ==
    /\ pc[t] = "et_check"
    /\ LET a == get_artifacts(artifacts, ds[t]) IN
        IF IsTrained(a)
        THEN /\ ret' = [ret EXCEPT ![t] = a]
             /\ pc' = [pc EXCEPT ![t] = AfterTrained(t)]
        ELSE /\ ret' = ret
             /\ pc' = [pc EXCEPT ![t] = "et_features"]
    /\ UNCHANGED <<datasets, artifacts, cache, default_id, status, lock, demo_path, finishing, clock,
                   op, ds, start, installs, resp>>

\* lines 67-74: start = time.time(), the sample, compute_features per card,
\* fit_score_calibration
EtFeatures(t) ==
    /\ pc[t] = "et_features"
    /\ clock < MaxFits
    /\ clock' = clock + 1
    /\ start' = [start EXCEPT ![t] = clock + 1]
    /\ pc' = [pc EXCEPT ![t] = "et_fit_profiler"]
    /\ UNCHANGED <<datasets, artifacts, cache, default_id, status, lock, demo_path, finishing,
                   op, ds, ret, installs, resp>>

\* line 75
EtFitProfiler(t) ==
    /\ pc[t] = "et_fit_profiler"
    /\ cache' = fit_profiler(cache, ds[t], nfeat(t), start[t])
    /\ pc' = [pc EXCEPT ![t] = "et_loop"]
    /\ UNCHANGED <<datasets, artifacts, default_id, status, lock, demo_path, finishing, clock,
                   op, ds, start, ret, installs, resp>>

\* lines 77-99: scores, bands and cluster labels of the sample
EtLoop(t) ==
    /\ pc[t] = "et_loop"
    /\ pc' = [pc EXCEPT ![t] = "et_install"]
    /\ UNCHANGED <<datasets, artifacts, cache, default_id, status, lock, demo_path, finishing, clock,
                   op, ds, start, ret, installs, resp>>

\* lines 101-107
NewArtifacts(t) ==
    [trained |-> TRUE, trained_users |-> nfeat(t), calibration |-> "fitted", stamp |-> start[t]]

\* lines 101-109
EtInstall(t) ==
    /\ pc[t] = "et_install"
    /\ artifacts' = set_artifacts(artifacts, ds[t], NewArtifacts(t))
    /\ installs' = [installs EXCEPT ![ds[t]] = @ + 1]
    /\ ret' = [ret EXCEPT ![t] = NewArtifacts(t)]
    /\ pc' = [pc EXCEPT ![t] = AfterTrained(t)]
    /\ UNCHANGED <<datasets, cache, default_id, status, lock, demo_path, finishing, clock,
                   op, ds, start, resp>>

\* the step the thread is about to run raises: feature extraction or calibration
\* (67-74), fit_profiler before it caches (75), the scoring / profile loop (77-99).
\* The exception leaves ensure_trained and is caught by the caller
\* (app.py 64, 207, 270)
EtRaise(t) ==
    /\ pc[t] \in {"et_features", "et_fit_profiler", "et_loop"}
    /\ pc' = [pc EXCEPT ![t] = AfterRaise(t)]
    /\ UNCHANGED <<datasets, artifacts, cache, default_id, status, lock, demo_path, finishing, clock,
                   op, ds, start, ret, installs, resp>>

\* --------------------------------------------------------------------------
\* Request handlers (app.py)
\* --------------------------------------------------------------------------
\* /api/train (258-268) and /api/analyze with a dataset_id (166-189) up to the
\* call of ensure_trained; a client knows the uploaded dataset's id, and the
\* demo dataset's id once it is the default
StartRequest(t) ==
    /\ pc[t] = "idle"
    /\ \E o \in {"train", "analyze"}, d \in DatasetIds :
        /\ get_dataset(d) # NotLoaded
        /\ d = "up" \/ d = get_default_dataset_id
        /\ op' = [op EXCEPT ![t] = o]
        /\ ds' = [ds EXCEPT ![t] = d]
    /\ pc' = [pc EXCEPT ![t] = "et_check"]
    /\ UNCHANGED <<datasets, artifacts, cache, default_id, status, lock, demo_path, finishing, clock,
                   start, ret, installs, resp>>

\* /api/analyze, line 191: ensure_profiler_fitted, the cache test (line 60)
AnProfilerCheck(t) ==
    /\ pc[t] = "an_profiler_check"
    /\ pc' = [pc EXCEPT ![t] = IF cache[ds[t]] # NoModel THEN "an_profile" ELSE "an_profiler_fit"]
    /\ UNCHANGED <<datasets, artifacts, cache, default_id, status, lock, demo_path, finishing, clock,
                   op, ds, start, ret, installs, resp>>

\* ensure_profiler_fitted, lines 62-70: features of a sample of cards, fit_profiler
AnProfilerFit(t) ==
    /\ pc[t] = "an_profiler_fit"
    /\ LET n == Min(get_dataset(ds[t]), MAX_USERS_FOR_FIT) IN
        /\ n >= N_CLUSTERS => clock < MaxFits
        /\ clock' = IF n >= N_CLUSTERS THEN clock + 1 ELSE clock
        /\ cache' = fit_profiler(cache, ds[t], n, clock + 1)
    /\ pc' = [pc EXCEPT ![t] = "an_profile"]
    /\ UNCHANGED <<datasets, artifacts, default_id, status, lock, demo_path, finishing,
                   op, ds, start, ret, installs, resp>>

\* /api/analyze, line 192: get_profile(dataset_id, features)
AnProfile(t) ==
    /\ pc[t] = "an_profile"
    /\ \E p \in get_profile(cache, ds[t]) : resp' = [resp EXCEPT ![t] = p]
    /\ pc' = [pc EXCEPT ![t] = "respond"]
    /\ UNCHANGED <<datasets, artifacts, cache, default_id, status, lock, demo_path, finishing, clock,
                   op, ds, start, ret, installs>>

\* /api/default, lines 215-218
StartDefault(t) ==
    /\ pc[t] = "idle"
    /\ op' = [op EXCEPT ![t] = "default"]
    /\ pc' = [pc EXCEPT ![t] = IF get_default_dataset_id # NoDataset THEN "df_answer" ELSE "edl_check"]
    /\ UNCHANGED <<datasets, artifacts, cache, default_id, status, lock, demo_path, finishing, clock,
                   ds, start, ret, installs, resp>>

\* _ensure_default_dataset_loaded, lines 73-74: the unlocked test
EdlCheck(t) ==
    /\ pc[t] = "edl_check"
    /\ pc' = [pc EXCEPT ![t] = IF BootstrapNotNeeded THEN "df_answer" ELSE "edl_lock"]
    /\ UNCHANGED <<datasets, artifacts, cache, default_id, status, lock, demo_path, finishing, clock,
                   op, ds, start, ret, installs, resp>>

\* lines 75-77: take the lock and test again
EdlLock(t) ==
    /\ pc[t] = "edl_lock"
    /\ lock = NoThread
    /\ IF BootstrapNotNeeded
       THEN /\ lock' = lock
            /\ pc' = [pc EXCEPT ![t] = "df_answer"]
       ELSE /\ lock' = t
            /\ pc' = [pc EXCEPT ![t] = "edl_spawn"]
    /\ UNCHANGED <<datasets, artifacts, cache, default_id, status, demo_path, finishing, clock,
                   op, ds, start, ret, installs, resp>>

\* lines 78-81: status, Thread(target=_init_default_demo_dataset).start(), release
EdlSpawn(t) ==
    /\ pc[t] = "edl_spawn"
    /\ pc[BootThread] = "dead"
    /\ status' = "loading"
    /\ lock' = NoThread
    /\ pc' = [pc EXCEPT ![t] = "df_answer", ![BootThread] = "bt_start"]
    /\ op' = [op EXCEPT ![BootThread] = "boot"]
    /\ UNCHANGED <<datasets, artifacts, cache, default_id, demo_path, finishing, clock,
                   ds, start, ret, installs, resp>>

\* /api/default, lines 217-236: the default id read again, then either the
\* bootstrap status passed on (CONFIG_ERROR for "error") or status "ready" with
\* the global_insights of the stored artifacts (0: none stored)
default_response(d, st, a) ==
    CASE d # NoDataset ->
            [kind |-> "default", code |-> 200, status |-> "ready", insights |-> a[d].stamp]
      [] d = NoDataset /\ st = "error" ->
            [kind |-> "default", code |-> 500, status |-> "error", insights |-> 0]
      [] OTHER ->
            [kind |-> "default", code |-> 200, status |-> st, insights |-> 0]

DefaultAnswer(t) ==
    /\ pc[t] = "df_answer"
    /\ resp' = [resp EXCEPT ![t] = default_response(get_default_dataset_id, status, artifacts)]
    /\ pc' = [pc EXCEPT ![t] = "respond"]
    /\ UNCHANGED <<datasets, artifacts, cache, default_id, status, lock, demo_path, finishing, clock,
                   op, ds, start, ret, installs>>

\* the handler returns its response (success, or SERVER_ERROR after an exception)
\* and the thread's locals go out of scope
Respond(t) ==
    /\ pc[t] \in {"respond", "failed"}
    /\ pc' = [pc EXCEPT ![t] = "idle"]
    /\ op' = [op EXCEPT ![t] = "none"]
    /\ ds' = [ds EXCEPT ![t] = "up"]
    /\ start' = [start EXCEPT ![t] = 0]
    /\ ret' = [ret EXCEPT ![t] = NoArtifacts]
    /\ resp' = [resp EXCEPT ![t] = NoResponse]
    /\ UNCHANGED <<datasets, artifacts, cache, default_id, status, lock, demo_path, finishing, clock,
                   installs>>

\* --------------------------------------------------------------------------
\* The bootstrap thread: app._init_default_demo_dataset
\* --------------------------------------------------------------------------
\* lines 49-54
BtStart ==
    /\ pc[BootThread] = "bt_start"
    /\ IF demo_path
       THEN /\ status' = "loading"
            /\ pc' = [pc EXCEPT ![BootThread] = "bt_load"]
            /\ op' = op
       ELSE /\ status' = status
            /\ pc' = [pc EXCEPT ![BootThread] = "dead"]
            /\ op' = [op EXCEPT ![BootThread] = "none"]
    /\ UNCHANGED <<datasets, artifacts, cache, default_id, lock, demo_path, finishing, clock,
                   ds, start, ret, installs, resp>>

\* line 55: load_demo stores the dataset, or raises
BtLoad ==
    /\ pc[BootThread] = "bt_load"
    /\ \/ /\ \E n \in DemoEntityCounts : datasets' = [datasets EXCEPT !["demo"] = n]
          /\ ds' = [ds EXCEPT ![BootThread] = "demo"]
          /\ pc' = [pc EXCEPT ![BootThread] = "bt_set_default"]
       \/ /\ pc' = [pc EXCEPT ![BootThread] = "bt_except"]
          /\ UNCHANGED <<datasets, ds>>
    /\ UNCHANGED <<artifacts, cache, default_id, status, lock, demo_path, finishing, clock,
                   op, start, ret, installs, resp>>

\* lines 56-57
BtSetDefault ==
    /\ pc[BootThread] = "bt_set_default"
    /\ default_id' = ds[BootThread]
    /\ pc' = [pc EXCEPT ![BootThread] = "bt_training"]
    /\ UNCHANGED <<datasets, artifacts, cache, status, lock, demo_path, finishing, clock,
                   op, ds, start, ret, installs, resp>>

\* lines 58-61 up to the call of ensure_trained
BtTraining ==
    /\ pc[BootThread] = "bt_training"
    /\ status' = "training"
    /\ pc' = [pc EXCEPT ![BootThread] = "et_check"]
    /\ UNCHANGED <<datasets, artifacts, cache, default_id, lock, demo_path, finishing, clock,
                   op, ds, start, ret, installs, resp>>

\* line 62 (ready) or line 65 (error): the last write of the status
BtFinish ==
    /\ pc[BootThread] \in {"bt_ready", "bt_except"}
    /\ finishing < MaxFinishing
    /\ status' = IF pc[BootThread] = "bt_ready" THEN "ready" ELSE "error"
    /\ finishing' = finishing + 1
    /\ pc' = [pc EXCEPT ![BootThread] = "dead"]
    /\ op' = [op EXCEPT ![BootThread] = "none"]
    /\ ds' = [ds EXCEPT ![BootThread] = "up"]
    /\ start' = [start EXCEPT ![BootThread] = 0]
    /\ ret' = [ret EXCEPT ![BootThread] = NoArtifacts]
    /\ UNCHANGED <<datasets, artifacts, cache, default_id, lock, demo_path, clock,
                   installs, resp>>

\* lines 63-64 or 66-67: the message, the log entry, and the thread ends
BtExit ==
    /\ finishing > 0
    /\ finishing' = finishing - 1
    /\ UNCHANGED <<datasets, artifacts, cache, default_id, status, lock, demo_path, clock,
                   pc, op, ds, start, ret, installs, resp>>

\* --------------------------------------------------------------------------
TrainInit ==
    /\ datasets \in {f \in [DatasetIds -> EntityCounts \cup {NotLoaded}] :
                        f["up"] # NotLoaded /\ f["demo"] = NotLoaded}
    /\ artifacts = [d \in DatasetIds |-> NoArtifacts]
    /\ cache = [d \in DatasetIds |-> NoModel]
    /\ default_id = NoDataset
    /\ status = "idle"
    /\ lock = NoThread
    /\ demo_path \in BOOLEAN
    /\ finishing = 0
    /\ clock = 0
    /\ pc = [t \in Threads |-> IF t = BootThread THEN "dead" ELSE "idle"]
    /\ op = [t \in Threads |-> "none"]
    /\ ds = [t \in Threads |-> "up"]
    /\ start = [t \in Threads |-> 0]
    /\ ret = [t \in Threads |-> NoArtifacts]
    /\ resp = [t \in Threads |-> NoResponse]
    /\ installs = [d \in DatasetIds |-> 0]

EnsureTrained(t) ==
    \/ EtCheck(t)
    \/ EtFeatures(t)
    \/ EtFitProfiler(t)
    \/ EtLoop(t)
    \/ EtInstall(t)
    \/ EtRaise(t)

TrainNext ==
    \/ \E t \in Threads : EnsureTrained(t)
    \/ \E t \in Requests :
        \/ StartRequest(t)
        \/ AnProfilerCheck(t)
        \/ AnProfilerFit(t)
        \/ AnProfile(t)
        \/ StartDefault(t)
        \/ EdlCheck(t)
        \/ EdlLock(t)
        \/ EdlSpawn(t)
        \/ DefaultAnswer(t)
        \/ Respond(t)
    \/ BtStart
    \/ BtLoad
    \/ BtSetDefault
    \/ BtTraining
    \/ BtFinish
    \/ BtExit

\* --------------------------------------------------------------------------
\* get_risk_band on one score
\* --------------------------------------------------------------------------
bandVars == <<bandIn, bandOut>>

\* scores with one decimal place, a little beyond both ends of [0, 100]
BandScores == -5..1005

BandInit ==
    /\ bandIn \in BandScores
    /\ bandOut = "none"

GetRiskBand ==
    /\ bandOut = "none"
    /\ bandOut' = get_risk_band(Q(bandIn, 10))
    /\ bandIn' = bandIn

\* --------------------------------------------------------------------------
\* compute_score on a feature vector, and on the vector with a larger
\* spike_intensity, under one calibration
\* --------------------------------------------------------------------------
scoreVars == <<scFeat, scCal, scSpikeB, scOut, scOutB>>

NoCalibration == [k \in {} |-> QInt(0)]
NoResult == [score |-> -1]

MakeCalibration(spike, max2h, eom, entropy, diversity) ==
    [spike_p95 |-> spike, max_tx_in_2h_p95 |-> max2h, eom_ratio_p95 |-> eom,
     hour_entropy_p95 |-> entropy, category_diversity_p95 |-> diversity]

\* training.fit_score_calibration, lines 41-45: the floors of the fitted bounds
CalibrationFloors == MakeCalibration(QInt(1), QInt(3), Q(1, 2), QInt(1), QInt(3))

AtOrAboveFloors(cal) ==
    \A k \in DOMAIN cal : QLe(CalibrationFloors[k], cal[k])

\* no calibration, the floors, two fitted calibrations, a caller-made one whose
\* diversity bound is positive but below the floor, and a degenerate one whose
\* bounds are all 0
ScoreCalibrations ==
    {NoCalibration,
     CalibrationFloors,
     MakeCalibration(Q(5, 2), QInt(6), QInt(2), QInt(3), QInt(5)),
     MakeCalibration(QInt(7), QInt(30), QInt(5), Q(9, 2), QInt(12)),
     MakeCalibration(QInt(1), QInt(3), Q(1, 2), QInt(1), QInt(2)),
     MakeCalibration(QInt(0), QInt(0), QInt(0), QInt(0), QInt(0))}

SpikeValues == {QInt(0), Q(1, 2), QInt(3), QInt(7)}

ScoreFeatures ==
    [spike_intensity : SpikeValues,
     burst_ratio_30min : {QInt(0), Q(1, 2), QInt(1)},
     max_tx_in_2h : {QInt(1), QInt(25)},
     eom_spend_ratio : {QInt(0), QInt(4)},
     eom_count_ratio : {QInt(0), Q(1, 2)},
     late_night_ratio : {QInt(0), QInt(1)},
     weekend_ratio : {QInt(0), QInt(1)},
     hour_entropy : {QInt(0), Q(9, 2)},
     category_concentration : {Q(1, 2), QInt(1)},
     category_diversity : {QInt(1), QInt(12)}]

ScoreInit ==
    /\ scFeat \in ScoreFeatures
    /\ scCal \in ScoreCalibrations
    /\ scSpikeB \in {b \in SpikeValues : QLe(scFeat.spike_intensity, b)}
    /\ scOut = NoResult
    /\ scOutB = NoResult

ComputeScore ==
    /\ scOut = NoResult
    /\ scOut' = compute_score(scFeat, scCal)
    /\ UNCHANGED <<scFeat, scCal, scSpikeB, scOutB>>

ComputeScoreRaisedSpike ==
    /\ scOutB = NoResult
    /\ scOutB' = compute_score([scFeat EXCEPT !.spike_intensity = scSpikeB], scCal)
    /\ UNCHANGED <<scFeat, scCal, scSpikeB, scOut>>

ScoreParked ==
    /\ scFeat = [spike_intensity |-> QInt(0)]
    /\ scCal = NoCalibration
    /\ scSpikeB = QInt(0)
    /\ scOut = NoResult
    /\ scOutB = NoResult

\* --------------------------------------------------------------------------
\* compute_features on one entity's rows, and on the same rows reordered
\* --------------------------------------------------------------------------
featVars == <<dfA, dfB, featA, featB>>

NoFeatures == [tx_count |-> -1]

\* Monday 10:00:00, 10:30:00, 12:00:00, 12:00:00 and one tick, and
\* Saturday the 27th 23:00:00
Monday10h == 10 * 3600 * TicksPerSecond
Saturday27th23h == (26 * 86400 + 23 * 3600) * TicksPerSecond

Instants ==
    {Monday10h,
     Monday10h + 1800 * TicksPerSecond,
     Monday10h + 7200 * TicksPerSecond,
     Monday10h + 7200 * TicksPerSecond + 1,
     Saturday27th23h}

Rows ==
    [purchase_date : Instants, purchase_amount : {1, -8, NaN}, category_3 : {"A", "B"}]

\* one representative ordering of every multiset of at most MaxTx rows
RowLe(r, q) ==
    \/ r.purchase_date < q.purchase_date
    \/ /\ r.purchase_date = q.purchase_date
       /\ \/ r.purchase_amount < q.purchase_amount
          \/ /\ r.purchase_amount = q.purchase_amount
             /\ (r.category_3 = "A" \/ q.category_3 = "B")

Frames ==
    UNION {{df \in [1..n -> Rows] : \A i \in 1..(n - 1) : RowLe(df[i], df[i + 1])} :
           n \in 0..MaxTx}

Orderings(df) ==
    {[i \in 1..Len(df) |-> df[p[i]]] :
        p \in {f \in [1..Len(df) -> 1..Len(df)] :
                  \A i, j \in 1..Len(df) : f[i] = f[j] => i = j}}

FeatInit ==
    /\ dfA \in Frames
    /\ dfB \in Orderings(dfA)
    /\ featA = NoFeatures
    /\ featB = NoFeatures

ComputeFeatures ==
    /\ featA = NoFeatures
    /\ featA' = compute_features(dfA)
    /\ UNCHANGED <<dfA, dfB, featB>>

ComputeFeaturesReordered ==
    /\ featB = NoFeatures
    /\ featB' = compute_features(dfB)
    /\ UNCHANGED <<dfA, dfB, featA>>

FeatParked ==
    /\ dfA = <<>>
    /\ dfB = <<>>
    /\ featA = NoFeatures
    /\ featB = NoFeatures

\* --------------------------------------------------------------------------
\* ensure_trained fits the calibration on its sample (lines 68-74), and a
\* FeatureVector is scored with it
\* --------------------------------------------------------------------------
calibVars == <<calSample, calProbe, calFitted, calScores>>

NotFitted == [spike_p95 |-> QInt(-1)]
NoScores == [with |-> NoResult, without |-> NoResult]

\* the bounds compute_score uses without a calibration (scoring.py 27-31)
DefaultCalibration == MakeCalibration(QInt(5), QInt(20), QInt(3), QInt(4), QInt(10))

Vector(spike, max2h, eom, entropy, diversity) ==
    [spike_intensity |-> spike, burst_ratio_30min |-> Q(1, 2), max_tx_in_2h |-> max2h,
     eom_spend_ratio |-> eom, eom_count_ratio |-> QInt(0),
     late_night_ratio |-> QInt(0), weekend_ratio |-> QInt(1),
     hour_entropy |-> entropy, category_concentration |-> Q(1, 2),
     category_diversity |-> diversity]

\* the values are 20 apart (the entropies 2), so that the interpolated 95th
\* percentiles stay fractions with small denominators
SampleVectors ==
    {Vector(QInt(0), QInt(1), QInt(0), QInt(0), QInt(1)),
     Vector(QInt(20), QInt(21), QInt(20), QInt(2), QInt(21)),
     Vector(QInt(40), QInt(41), QInt(40), QInt(4), QInt(41))}

ProbeVectors ==
    SampleVectors \cup {Vector(QInt(3), QInt(8), QInt(1), QInt(3), QInt(6))}

CalibInit ==
    /\ calSample \in UNION {[1..n -> SampleVectors] : n \in 0..MaxSample}
    /\ calProbe \in ProbeVectors
    /\ calFitted = NotFitted
    /\ calScores = NoScores

\* training.ensure_trained, line 74
FitCalibration ==
    /\ calFitted = NotFitted
    /\ calFitted' = fit_score_calibration(calSample)
    /\ UNCHANGED <<calSample, calProbe, calScores>>

\* compute_score(features, calibration=calibration) with the fitted
\* calibration (training.py 82, app.py 193), and with no calibration
ScoreProbe ==
    /\ calFitted # NotFitted
    /\ calScores = NoScores
    /\ calScores' = [with |-> compute_score(calProbe, calFitted),
                     without |-> compute_score(calProbe, NoCalibration)]
    /\ UNCHANGED <<calSample, calProbe, calFitted>>

CalibParked ==
    /\ calSample = <<>>
    /\ calProbe = [spike_intensity |-> QInt(0)]
    /\ calFitted = NotFitted
    /\ calScores = NoScores

\* --------------------------------------------------------------------------
\* One call of ensure_trained on an untrained dataset: the sample of card ids,
\* the loop over the sampled entities, the record installed (training.py 67-109)
\* --------------------------------------------------------------------------
giVars == <<giDf, giPc, giCardIds, giCalibration, giCache, giScores, giBandCounts,
            giClusterCounts, giArtifacts>>

\* most distinct card ids of a DataFrame: one more than the cap
MaxCards == UsersForFit + 1

NoInsights == [trained |-> FALSE]
NoCounts == [k \in {} |-> 0]

\* a slip in _sample_card_ids: the card_id column taken without .unique()
unique_skipped(column) == column

\* Series.unique(): the values in order of first appearance
RECURSIVE unique(_)
unique(column) ==
    IF column = <<>> THEN <<>>
    ELSE LET head == unique(SubSeq(column, 1, Len(column) - 1))
             x == column[Len(column)]
         IN IF \E i \in 1..Len(head) : head[i] = x THEN head ELSE Append(head, x)

\* rng.choice(n, k, replace=False): k different positions out of n. Of the
\* orders the generator can give them in, the ascending and the descending one
\* are enumerated for every choice of positions.
rng_choice(n, k) ==
    LET picks == {S \in SUBSET (1..n) : Cardinality(S) = k}
        ascending(S) == [i \in 1..k |-> CHOOSE x \in S : Cardinality({y \in S : y < x}) = i - 1]
        descending(S) == [i \in 1..k |-> CHOOSE x \in S : Cardinality({y \in S : y > x}) = i - 1]
    IN {ascending(S) : S \in picks} \cup {descending(S) : S \in picks}

\* training._sample_card_ids(df, max_users): the lists it can return
sample_card_ids_of(column, max_users) ==
    LET card_ids == unique(column) IN
        IF Len(card_ids) <= max_users THEN {card_ids}
        ELSE {[i \in 1..max_users |-> card_ids[idx[i]]] :
                idx \in rng_choice(Len(card_ids), max_users)}

\* compute_features of the rows of one card: the FeatureVector of card cid
CardFeatures(cid) ==
    CASE cid = 1 -> Vector(QInt(0), QInt(1), QInt(0), QInt(0), QInt(1))
      [] cid = 2 -> Vector(QInt(20), QInt(21), QInt(20), QInt(2), QInt(21))
      [] cid = 3 -> Vector(QInt(40), QInt(41), QInt(40), QInt(4), QInt(41))
      [] cid = 4 -> Vector(QInt(0), QInt(21), QInt(0), QInt(4), QInt(1))
      [] cid = 5 -> Vector(QInt(20), QInt(1), QInt(40), QInt(0), QInt(41))
      [] OTHER -> Vector(QInt(40), QInt(41), QInt(20), QInt(2), QInt(1))

\* lines 69-72
features_list_of(card_ids) == [i \in 1..Len(card_ids) |-> CardFeatures(card_ids[i])]

\* counts[key] = counts.get(key, 0) + 1
Bump(counts, key) ==
    IF key \in DOMAIN counts THEN [counts EXCEPT ![key] = @ + 1]
    ELSE counts @@ (key :> 1)

\* the card_id columns: the rows of cards 1..n, followed by up to two rows of
\* cards 1 and 2
InsightFrames ==
    {[i \in 1..(n + e) |-> IF i <= n THEN i ELSE i - n] : n \in 0..MaxCards, e \in 0..2}

InsightsInit ==
    /\ giDf \in InsightFrames
    /\ giPc = "sample"
    /\ giCardIds = <<>>
    /\ giCalibration = NotFitted
    /\ giCache = [d \in DatasetIds |-> NoModel]
    /\ giScores = <<>>
    /\ giBandCounts = NoCounts
    /\ giClusterCounts = NoCounts
    /\ giArtifacts = NoInsights

\* line 68: card_ids = _sample_card_ids(df, MAX_USERS_FOR_FIT)
GiSample ==
    /\ giPc = "sample"
    /\ giCardIds' \in sample_card_ids_of(giDf, UsersForFit)
    /\ giPc' = "fit"
    /\ UNCHANGED <<giDf, giCalibration, giCache, giScores, giBandCounts, giClusterCounts,
                   giArtifacts>>

\* lines 69-75: the features of every sampled card, fit_score_calibration,
\* fit_profiler
GiFit ==
    /\ giPc = "fit"
    /\ giCalibration' = fit_score_calibration(features_list_of(giCardIds))
    /\ giCache' = fit_profiler(giCache, "up", Len(giCardIds), 1)
    /\ giPc' = "loop"
    /\ UNCHANGED <<giDf, giCardIds, giScores, giBandCounts, giClusterCounts, giArtifacts>>

\* lines 81-89: one iteration of the loop over features_list
GiLoop ==
    /\ giPc = "loop"
    /\ Len(giScores) < Len(giCardIds)
    /\ LET feats == features_list_of(giCardIds)[Len(giScores) + 1]
           score == compute_score(feats, giCalibration).score
           band_label == get_risk_band(Q(score, 10))
       IN /\ giScores' = Append(giScores, score)
          /\ giBandCounts' = Bump(giBandCounts, band_label)
          /\ \E profile \in get_profile(giCache, "up") :
                giClusterCounts' = Bump(giClusterCounts, profile.profile_label)
    /\ UNCHANGED <<giDf, giPc, giCardIds, giCalibration, giCache, giArtifacts>>

\* lines 91-108: global_insights and the artifacts record, set_artifacts
GiInstall ==
    /\ giPc = "loop"
    /\ Len(giScores) = Len(giCardIds)
    /\ LET scores_arr == IF giScores = <<>> THEN <<QInt(0)>>
                         ELSE [i \in 1..Len(giScores) |-> Q(giScores[i], 10)]
       IN giArtifacts' =
            [trained |-> TRUE,
             trained_users |-> Len(features_list_of(giCardIds)),
             calibration |-> giCalibration,
             global_insights |->
                [p50_score |-> np_percentile(scores_arr, 50),
                 p75_score |-> np_percentile(scores_arr, 75),
                 p90_score |-> np_percentile(scores_arr, 90),
                 band_counts |-> giBandCounts,
                 cluster_counts |-> giClusterCounts]]
    /\ giPc' = "done"
    /\ UNCHANGED <<giDf, giCardIds, giCalibration, giCache, giScores, giBandCounts,
                   giClusterCounts>>

InsightsParked ==
    /\ giDf = <<>>
    /\ giPc = "done"
    /\ giCardIds = <<>>
    /\ giCalibration = NotFitted
    /\ giCache = [d \in DatasetIds |-> NoModel]
    /\ giScores = <<>>
    /\ giBandCounts = NoCounts
    /\ giClusterCounts = NoCounts
    /\ giArtifacts = NoInsights

\* --------------------------------------------------------------------------
\* Specifications: each runs one part of the program, the others stay parked
\* --------------------------------------------------------------------------
vars == <<trainVars, bandVars, scoreVars, featVars, calibVars, giVars>>

TrainParked ==
    /\ datasets = [d \in DatasetIds |-> NotLoaded]
    /\ artifacts = [d \in DatasetIds |-> NoArtifacts]
    /\ cache = [d \in DatasetIds |-> NoModel]
    /\ default_id = NoDataset
    /\ status = "idle"
    /\ lock = NoThread
    /\ demo_path = FALSE
    /\ finishing = 0
    /\ clock = 0
    /\ pc = [t \in Threads |-> IF t = BootThread THEN "dead" ELSE "idle"]
    /\ op = [t \in Threads |-> "none"]
    /\ ds = [t \in Threads |-> "up"]
    /\ start = [t \in Threads |-> 0]
    /\ ret = [t \in Threads |-> NoArtifacts]
    /\ resp = [t \in Threads |-> NoResponse]
    /\ installs = [d \in DatasetIds |-> 0]

BandParked ==
    /\ bandIn = 0
    /\ bandOut = "none"

Init ==
    /\ TrainInit
    /\ BandParked
    /\ ScoreParked
    /\ FeatParked
    /\ CalibParked
    /\ InsightsParked

Next == TrainNext /\ UNCHANGED <<bandVars, scoreVars, featVars, calibVars, giVars>>

Spec == Init /\ [][Next]_vars

BandNext == GetRiskBand /\ UNCHANGED <<trainVars, scoreVars, featVars, calibVars, giVars>>

BandSpecInit ==
    /\ TrainParked
    /\ BandInit
    /\ ScoreParked
    /\ FeatParked
    /\ CalibParked
    /\ InsightsParked

SpecBand == BandSpecInit /\ [][BandNext]_vars

ScoreNext ==
    /\ ComputeScore \/ ComputeScoreRaisedSpike
    /\ UNCHANGED <<trainVars, bandVars, featVars, calibVars, giVars>>

ScoreSpecInit ==
    /\ TrainParked
    /\ BandParked
    /\ ScoreInit
    /\ FeatParked
    /\ CalibParked
    /\ InsightsParked

SpecScore == ScoreSpecInit /\ [][ScoreNext]_vars

FeatNext ==
    /\ ComputeFeatures \/ ComputeFeaturesReordered
    /\ UNCHANGED <<trainVars, bandVars, scoreVars, calibVars, giVars>>

FeatSpecInit ==
    /\ TrainParked
    /\ BandParked
    /\ ScoreParked
    /\ FeatInit
    /\ CalibParked
    /\ InsightsParked

SpecFeatures == FeatSpecInit /\ [][FeatNext]_vars

CalibNext ==
    /\ FitCalibration \/ ScoreProbe
    /\ UNCHANGED <<trainVars, bandVars, scoreVars, featVars, giVars>>

CalibSpecInit ==
    /\ TrainParked
    /\ BandParked
    /\ ScoreParked
    /\ FeatParked
    /\ CalibInit
    /\ InsightsParked

SpecCalib == CalibSpecInit /\ [][CalibNext]_vars

InsightsNext ==
    /\ GiSample \/ GiFit \/ GiLoop \/ GiInstall
    /\ UNCHANGED <<trainVars, bandVars, scoreVars, featVars, calibVars>>

InsightsSpecInit ==
    /\ TrainParked
    /\ BandParked
    /\ ScoreParked
    /\ FeatParked
    /\ CalibParked
    /\ InsightsInit

SpecInsights == InsightsSpecInit /\ [][InsightsNext]_vars

\* ==========================================================================
\* Claims about the training orchestrator (checked under Spec)
\* ==========================================================================
FitPcs == {"et_features", "et_fit_profiler", "et_loop", "et_install"}

\* C1: under every interleaving of ensure_trained callers (request handlers and
\* the bootstrap thread) the fit sequence, ending in set_artifacts, is executed
\* at most once per dataset id.
C1_FitAtMostOncePerDataset ==
    \A d \in DatasetIds : installs[d] <= 1

\* C2: once a trained artifacts record is installed for a dataset id, a call of
\* ensure_trained on that id returns the installed record itself and does no
\* feature extraction, no fit and no set_artifacts: the step of the early-return
\* test hands back artifacts[d] and leaves artifacts, cache, clock and the
\* install count as they are.
C2_TrainedCallReturnsInstalledRecord ==
    [][\A t \in Threads :
        (pc[t] = "et_check" /\ pc'[t] # "et_check" /\ artifacts[ds[t]].trained)
            => /\ pc'[t] \notin FitPcs
               /\ ret'[t] = artifacts[ds[t]]
               /\ artifacts' = artifacts
               /\ cache' = cache
               /\ clock' = clock
               /\ installs' = installs]_vars

\* C2 witness: two threads hold the same trained record of one fit as the
\* result of ensure_trained, so (stamps being fresh per fit) one of them got it
\* from the early return after the other's fit was installed.
C2_Witness ==
    \E t, u \in Threads :
        /\ t # u
        /\ ret[t].trained
        /\ ret[t] = ret[u]
        /\ ds[t] = ds[u]
        /\ installs[ds[t]] = 1

\* C3: when ensure_trained raises, nothing the failed fit produced is left in
\* the dataset's training state: neither the artifacts record nor the cached
\* cluster model carries the stamp of the failed fit.
C3_FailedFitLeavesNoTrace ==
    \A t \in Threads :
        (pc[t] \in {"failed", "bt_except"} /\ start[t] # 0)
            => /\ cache[ds[t]] # start[t]
               /\ artifacts[ds[t]].stamp # start[t]

\* C4: a fit is published in one step: whenever a cluster model is cached for a
\* dataset id, the artifacts record of that id is installed and trained.
C4_ModelVisibleOnlyWithArtifacts ==
    \A d \in DatasetIds : cache[d] # NoModel => IsTrained(artifacts[d])

\* ==========================================================================
\* Claims about the band lookup (checked under SpecBand)
\* ==========================================================================
\* C5: for every score with one decimal place in [0, 100] get_risk_band returns
\* Low on [0.0, 25.0], Medium on [25.1, 50.0], High on [50.1, 75.0] and Critical
\* on [75.1, 100.0].
C5_BandTable ==
    (bandOut # "none" /\ 0 <= bandIn /\ bandIn <= 1000)
        => bandOut = (CASE bandIn <= 250 -> "Low"
                        [] bandIn <= 500 -> "Medium"
                        [] bandIn <= 750 -> "High"
                        [] OTHER -> "Critical")

\* ==========================================================================
\* Claims about the risk scorer (checked under SpecScore)
\* ==========================================================================
InUnit(x) == QLe(QInt(0), x) /\ QLe(x, QInt(1))

\* the feature vectors C6 speaks of: the shares in [0, 1], the end-of-month
\* ratios, the counts, the spike and the entropy non-negative
WellFormedFeatures(f) ==
    /\ InUnit(f.late_night_ratio) /\ InUnit(f.weekend_ratio)
    /\ InUnit(f.burst_ratio_30min) /\ InUnit(f.category_concentration)
    /\ QLe(QInt(0), f.eom_spend_ratio) /\ QLe(QInt(0), f.eom_count_ratio)
    /\ QLe(QInt(0), f.spike_intensity) /\ QLe(QInt(0), f.hour_entropy)
    /\ QLe(QInt(0), f.max_tx_in_2h) /\ QLe(QInt(0), f.category_diversity)

\* C6: for a well-formed feature vector and a calibration whose bounds are at
\* or above the floors (or no calibration), each of the five components of the
\* breakdown lies in [0, 1] and the final score lies in [0, 100].
C6_ComponentsAndScoreInRange ==
    (scOut # NoResult /\ WellFormedFeatures(scFeat) /\ AtOrAboveFloors(scCal))
        => /\ \A c \in DOMAIN scOut.breakdown : InUnit(scOut.breakdown[c])
           /\ DOMAIN scOut.breakdown = {"spike", "burst", "eom", "timing", "category"}
           /\ 0 <= scOut.score /\ scOut.score <= 1000

\* C6 witness: a fitted calibration, a spike above its bound, and the spike
\* component clamped to exactly 1.
C6_Witness ==
    /\ scOut # NoResult
    /\ scCal # NoCalibration /\ AtOrAboveFloors(scCal)
    /\ QLt(scCal["spike_p95"], scFeat.spike_intensity)
    /\ scOut.breakdown.spike = QInt(1)
    /\ scOut.score > 500

\* C7: two feature vectors that differ only in spike_intensity, a <= b, scored
\* under the same calibration: the spike component and the final score of b
\* are at least those of a.
C7_MonotoneInSpike ==
    (scOut # NoResult /\ scOutB # NoResult)
        => /\ QLe(scOut.breakdown.spike, scOutB.breakdown.spike)
           /\ scOut.score <= scOutB.score

\* C7 witness: the larger spike gives a strictly larger component and score.
C7_Witness ==
    /\ scOut # NoResult /\ scOutB # NoResult
    /\ QLt(scFeat.spike_intensity, scSpikeB)
    /\ QLt(scOut.breakdown.spike, scOutB.breakdown.spike)
    /\ scOut.score < scOutB.score

\* ==========================================================================
\* Claims about the feature computation (checked under SpecFeatures)
\* ==========================================================================
Computed == {f \in {featA, featB} : f # NoFeatures}

EpsRatioInUnit(r) == 0 <= r.num /\ r.num <= r.den

\* C8: every ratio field of a computed FeatureVector (late_night_ratio,
\* weekend_ratio, burst_ratio_30min, eom_spend_ratio, eom_count_ratio,
\* category_concentration) lies in [0, 1], category_diversity >= 0 and
\* tx_count >= 0, for every transaction set including the empty one.
C8_RatioFieldsInUnit ==
    \A f \in Computed :
        /\ InUnit(f.late_night_ratio) /\ InUnit(f.weekend_ratio)
        /\ InUnit(f.category_concentration)
        /\ EpsRatioInUnit(f.burst_ratio_30min)
        /\ EpsRatioInUnit(f.eom_spend_ratio) /\ EpsRatioInUnit(f.eom_count_ratio)
        /\ f.category_diversity >= 0 /\ f.tx_count >= 0

\* the densest closed window [t, t + 2h] over the rows' timestamps
closed_window_max(df) ==
    LET I == 1..Len(df)
        within(i) == Cardinality({j \in I :
                        /\ df[j].purchase_date >= df[i].purchase_date
                        /\ df[j].purchase_date <= df[i].purchase_date + 7200 * TicksPerSecond})
    IN CHOOSE m \in {within(i) : i \in I} : \A i \in I : within(i) <= m

\* C9: for an entity with at least one transaction, max_tx_in_2h is the
\* maximum over its transactions t of the number of transactions in the closed
\* window [t, t + 2h]; it lies between 1 and tx_count.
C9_MaxTxIsDensestClosedWindow ==
    (featA # NoFeatures /\ Len(dfA) >= 1)
        => /\ featA.max_tx_in_2h = closed_window_max(dfA)
           /\ 1 <= featA.max_tx_in_2h /\ featA.max_tx_in_2h <= featA.tx_count

\* C10: two orderings of the same rows (rows of equal timestamp included) give
\* the same FeatureVector.
C10_OrderInsensitive ==
    (featA # NoFeatures /\ featB # NoFeatures) => featA = featB

\* ==========================================================================
\* Claims about the fallback profile and the bootstrap (checked under Spec)
\* ==========================================================================
SmallDataset(d) == datasets[d] # NotLoaded /\ datasets[d] < N_CLUSTERS

\* C11: for a dataset with fewer than N_CLUSTERS distinct entities no cluster
\* model is ever cached, and every profile get_profile returns for it is
\* cluster 0, "Steady spender", whatever calls came before.
C11_SmallDatasetDefaultProfile ==
    \A d \in DatasetIds : SmallDataset(d) =>
        /\ cache[d] = NoModel
        /\ \A p \in get_profile(cache, d) :
                p.cluster_id = 0 /\ p.profile_label = "Steady spender"
        /\ \A t \in Threads : (resp[t].kind = "profile" /\ ds[t] = d) =>
                resp[t].cluster_id = 0 /\ resp[t].profile_label = "Steady spender"

\* C11 witness: an /api/analyze on a small dataset got its profile after
\* ensure_trained installed artifacts and ensure_profiler_fitted ran.
C11_Witness ==
    \E t \in Requests :
        /\ resp[t].kind = "profile" /\ SmallDataset(ds[t])
        /\ installs[ds[t]] >= 1 /\ IsTrained(artifacts[ds[t]])
        /\ resp[t].cluster_id = 0

\* ==========================================================================
\* Claims about the score calibration (checked under SpecCalib)
\* ==========================================================================
\* C12: when the sample ensure_trained draws has fewer than N_CLUSTERS members
\* the calibration it installs consists of the fixed default bounds
\* (5, 20, 3, 4, 10): the fitter is not applied to that sample.
C12_SmallSampleGetsDefaults ==
    (calFitted # NotFitted /\ Len(calSample) < N_CLUSTERS)
        => calFitted = DefaultCalibration

\* C13: for every sample fit_score_calibration returns its five bounds, each
\* at or above its floor; for the empty sample they are exactly the defaults
\* of compute_score, and scoring with them equals scoring with no calibration.
C13_CalibrationFloorsAndDefaults ==
    calFitted # NotFitted =>
        /\ DOMAIN calFitted = DOMAIN CalibrationFloors
        /\ AtOrAboveFloors(calFitted)
        /\ Len(calSample) = 0 =>
            /\ calFitted = DefaultCalibration
            /\ calScores # NoScores => calScores.with = calScores.without

\* C13 witness: the empty sample was fitted and the probe scored both ways.
C13_Witness ==
    /\ Len(calSample) = 0
    /\ calFitted = DefaultCalibration
    /\ calScores # NoScores
    /\ calScores.with = calScores.without
    /\ calScores.with.score > 0

\* ==========================================================================
\* Further claims about the feature computation (checked under SpecFeatures)
\* ==========================================================================
EpsRatioIsZero(r) == r.num = 0

\* C14: for an entity with exactly one transaction, whatever its date:
\* hour_entropy = 0, spike_intensity = 0, burst_ratio_30min = 0,
\* max_tx_in_2h = 1, tx_count = 1, and eom_spend_ratio = eom_count_ratio = 0.
C14_SingleTransaction ==
    (featA # NoFeatures /\ Len(dfA) = 1)
        => /\ featA.hour_entropy = hour_entropy(<<>>)
           /\ featA.spike_intensity.squared = QInt(0)
           /\ EpsRatioIsZero(featA.burst_ratio_30min)
           /\ featA.max_tx_in_2h = 1
           /\ featA.tx_count = 1
           /\ EpsRatioIsZero(featA.eom_spend_ratio)
           /\ EpsRatioIsZero(featA.eom_count_ratio)

\* x / (y + 1e-10) = p / d for integers x, y >= 0, 0 <= p < 10^10 and d > 0
\* means x * d = p * y + p * 1e-10, and p * 1e-10 is an integer only for p = 0
EpsRatioEquals(r, q) == r.num = 0 /\ q.n = 0

\* the share of the positive gaps between consecutive transactions, in time
\* order, that are at most 30 minutes; 0 without a positive gap
positive_gap_share(df) ==
    LET s == sort_values(df)
        gap(i) == s[i].purchase_date - s[i - 1].purchase_date
        positive == {i \in 2..Len(s) : gap(i) > 0}
        short == {i \in positive : gap(i) <= 1800 * TicksPerSecond}
    IN IF positive = {} THEN QInt(0) ELSE Q(Cardinality(short), Cardinality(positive))

\* C20: burst_ratio_30min equals the number of gaps g with 0 < g <= 30 min
\* divided by the number of gaps g > 0, is 0 without a positive gap, and is
\* exactly 1.0 when every positive gap is at most 30 minutes.
C20_BurstRatioIsGapShare ==
    featA # NoFeatures => EpsRatioEquals(featA.burst_ratio_30min, positive_gap_share(dfA))

\* ==========================================================================
\* Claims about installed artifacts and the bootstrap (checked under Spec)
\* ==========================================================================
\* C15: once a trained artifacts record is installed for a dataset id it is
\* never replaced or changed, under any interleaving of ensure_trained callers.
C15_InstalledArtifactsImmutable ==
    [][\A d \in DatasetIds :
        IsTrained(artifacts[d]) => artifacts'[d] = artifacts[d]]_vars

\* C18: whenever /api/default answers with status "ready", the bootstrap has
\* finished successfully: its status is ready and the default dataset's
\* artifacts are installed and trained, so the insights returned are theirs.
C18_ReadyAnswerMeansBootstrapDone ==
    [][\A t \in Requests :
        (pc[t] = "df_answer" /\ pc'[t] = "respond" /\ resp'[t].status = "ready")
            => /\ status = "ready"
               /\ IsTrained(artifacts[default_id])
               /\ resp'[t].insights = artifacts[default_id].stamp
               /\ resp'[t].insights # 0]_vars

\* C19: after ensure_trained has completed for a dataset id, no later
\* /api/analyze on that dataset does dataset-wide work again (features of all
\* entities, a profiler fit), whatever the number of entities. A request whose
\* own ensure_trained call found the record installed has start = 0.
C19_NoDatasetWideWorkAfterTraining ==
    [][\A t \in Requests :
        (pc[t] = "an_profiler_fit" /\ pc'[t] = "an_profile")
            => ~(IsTrained(artifacts[ds[t]]) /\ start[t] = 0)]_vars

\* bootstrap threads alive: the one at work, and those in their last statements
RunningBootstraps == (IF pc[BootThread] # "dead" THEN 1 ELSE 0) + finishing

\* C16: at most one bootstrap thread is running at any time; a thread is
\* started only when no default dataset id is set and the status is idle or
\* error; no caller waits for the load / train work (the lock is only held by
\* a request thread about to start the bootstrap thread).
C16_AtMostOneBootstrapThread ==
    /\ [](RunningBootstraps <= 1)
    /\ [](lock # NoThread => lock \in Requests /\ pc[lock] = "edl_spawn")
    /\ [][(pc[BootThread] = "dead" /\ pc'[BootThread] = "bt_start")
            => default_id = NoDataset /\ status \in {"idle", "error"}]_vars

\* --------------------------------------------------------------------------
\* The bootstrap on its own: /api/default requests and the bootstrap thread,
\* with the scheduling every started thread gets
\* --------------------------------------------------------------------------
\* one step of the thread running _init_default_demo_dataset up to its last
\* write of the status
BootThreadStep ==
    \/ BtStart
    \/ BtLoad
    \/ BtSetDefault
    \/ BtTraining
    \/ EnsureTrained(BootThread)
    \/ BtFinish

\* one step of a started /api/default handler
DefaultHandlerStep(t) ==
    \/ EdlCheck(t)
    \/ EdlLock(t)
    \/ EdlSpawn(t)
    \/ DefaultAnswer(t)
    \/ Respond(t)

BootNext ==
    /\ \/ \E t \in Requests : StartDefault(t)
       \/ \E t \in Requests : DefaultHandlerStep(t)
       \/ BootThreadStep
       \/ BtExit
    /\ UNCHANGED <<bandVars, scoreVars, featVars, calibVars, giVars>>

\* a started thread keeps being scheduled: the bootstrap thread, the tail of a
\* bootstrap thread that wrote its last status, and every handler that has begun.
\* Clients are not obliged to send requests.
BootFairness ==
    /\ WF_trainVars(BootThreadStep)
    /\ WF_trainVars(BtExit)
    /\ \A t \in Requests : WF_trainVars(DefaultHandlerStep(t))

SpecBoot == Init /\ [][BootNext]_vars /\ BootFairness

\* C17: once _ensure_default_dataset_loaded has set the status to "loading" and
\* started the bootstrap thread, the status eventually becomes "ready" or
\* "error", also when no demo dataset path is configured
C17_BootstrapStatusSettles ==
    (status = "loading") ~> (status \in {"ready", "error"})

\* ==========================================================================
\* Claims about spike_intensity (checked under SpecFeatures)
\* ==========================================================================
\* the per-day aggregates of a frame: the calendar days, the transactions and
\* the total spend of each day
daily_of(df) ==
    LET s == sort_values(df)
        days == {Date(s[i].purchase_date) : i \in 1..Len(s)}
        rows_of(d) == SelectSeq(s, LAMBDA r : Date(r.purchase_date) = d)
    IN [days |-> days,
        daily_tx_count |-> [d \in days |-> Len(rows_of(d))],
        daily_spend |-> [d \in days |->
            FSum([k \in 1..Len(rows_of(d)) |-> to_amount(rows_of(d)[k].purchase_amount)])]]

\* the largest squared z-score of a daily series with the population standard
\* deviation (divisor = number of days): with dev(d) = n*x[d] - sum(x),
\* z(d)^2 = dev(d)^2 * n / sum(dev^2)
population_spike_squared(x, days) ==
    LET n == Cardinality(days)
        total == SumOver(days, x)
        dev == [d \in days |-> n * x[d] - total]
        sq == [d \in days |-> dev[d] * dev[d]]
        ss == SumOver(days, sq)
        top == CHOOSE m \in {sq[d] : d \in days} : \A d \in days : sq[d] <= m
    IN IF ss = 0 THEN QInt(0) ELSE Q(top * n, ss)

\* C21: spike_intensity is 0 when the transactions fall on fewer than 2
\* distinct calendar days; otherwise it is the larger of the maximum absolute
\* z-scores of the per-day counts and of the per-day spends, each z-score taken
\* with the population mean and the population standard deviation
C21_SpikeIsPopulationZScore ==
    (featA # NoFeatures /\ Len(dfA) > 0) =>
        LET a == daily_of(dfA) IN
            featA.spike_intensity.squared =
                IF Cardinality(a.days) < 2 THEN QInt(0)
                ELSE QMax(population_spike_squared(a.daily_tx_count, a.days),
                          population_spike_squared(a.daily_spend, a.days))

\* ==========================================================================
\* Claims about the category component and the band (checked under SpecScore)
\* ==========================================================================
\* the calibration's category_diversity bound as compute_score reads it
diversity_bound(cal) == CalGet(cal, "category_diversity_p95", QInt(10))

C23_BandIsBandOfReturnedScore ==
    scOut # NoResult => scOut.risk_band = get_risk_band(Q(scOut.score, 10))

\* ==========================================================================
\* Claims about the installed record (checked under SpecInsights)
\* ==========================================================================
\* the sum of the values of a counts dict
CountsTotal(counts) == SumOver(DOMAIN counts, counts)

\* the number of distinct entity ids of the dataset
DistinctCards(column) == Cardinality({column[i] : i \in 1..Len(column)})

\* C24: in every artifacts record installed by ensure_trained the band_counts
\* values sum to trained_users, the cluster_counts values sum to trained_users,
\* and trained_users is the number of sampled entities, which is
\* min(number of distinct entity ids, sampling cap), no id sampled twice
C24_CountsSumToTrainedUsers ==
    giArtifacts # NoInsights =>
        /\ CountsTotal(giArtifacts.global_insights.band_counts) = giArtifacts.trained_users
        /\ CountsTotal(giArtifacts.global_insights.cluster_counts) = giArtifacts.trained_users
        /\ giArtifacts.trained_users = Len(giCardIds)
        /\ giArtifacts.trained_users = Min(DistinctCards(giDf), UsersForFit)
        /\ \A i, j \in 1..Len(giCardIds) : giCardIds[i] = giCardIds[j] => i = j

\* C24 witness: a record installed for a dataset with more distinct cards than
\* the cap and with repeated card ids, whose sample fell in more than one band
\* and more than one cluster
C24_Witness ==
    /\ giArtifacts # NoInsights
    /\ DistinctCards(giDf) > UsersForFit
    /\ Len(giDf) > DistinctCards(giDf)
    /\ giArtifacts.trained_users = UsersForFit
    /\ Cardinality(DOMAIN giArtifacts.global_insights.band_counts) >= 2
    /\ Cardinality(DOMAIN giArtifacts.global_insights.cluster_counts) >= 2

====
